---- MODULE Spec2Model ----
(* Bounded-retry conversation-history manager of src/app.py:                *)
(* trim_history, the session history and its resets, and the send handler   *)
(* with its 429 retry loop.                                                 *)
EXTENDS Integers, Sequences, FiniteSets, TLC

VARIABLES genai, hasHistory, history, now, pc, i, prompt, calls, trims,
          sleeps, prompts, outcomes, error, arg_history, keep_turns, result, applied,
          op, before, user_turn, credential

vars == <<genai, hasHistory, history, now, pc, i, prompt, calls, trims,
          sleeps, prompts, outcomes, error, arg_history, keep_turns, result, applied,
          op, before, user_turn, credential>>

appVars == <<genai, hasHistory, history, now, pc, i, prompt, calls, trims,
             sleeps, prompts, outcomes, error, op, before, user_turn, credential>>

(* what the latest script run was given and found: the button pressed, the *)
(* history it started from, the user Turn it appended, the credential      *)
runVars == <<op, before, user_turn, credential>>

trimVars == <<arg_history, keep_turns, result, applied>>

(* ---------------------------------------------------------------- bounds *)
MaxTime == 9      \* timestamps handed out by the clock in one session
MaxLen == 7       \* length of the conversations given to trim_history alone
MaxKeep == 6      \* largest keep_turns given to trim_history alone
MaxApplied == 2   \* how many times trim_history is re-applied to its result

(* ------------------------------------------------------------- constants *)
SYSTEM_PROMPT == <<"S">>
FALLBACK_REPLY == <<"F">>
API_KEY_ERROR == <<"K">>
NO_GENAI_ERROR == <<"G">>
retries == 3
KEEP_TURNS == 6
QUOTA == <<"4", "2", "9">>

Roles == {"system", "user", "assistant"}

(* the text typed in the message box, before strip() *)
UserInputs == {<<>>, <<" ">>, <<" ", "a", " ">>, <<"b", " ", "b">>}
(* the credential: absent, or some key *)
ApiKeys == {<<>>, <<"k">>}
(* texts the provider returns *)
Replies == {<<"r">>}
(* failures of the provider call: status code and message text *)
Errors == {[code |-> QUOTA, message |-> <<"x">>],
           [code |-> <<"5", "0", "0">>, message |-> <<"x">>],
           [code |-> <<"5", "0", "0">>, message |-> <<"i", "d", "4", "2", "9">>]}

(* ------------------------------------------------------ python helpers *)
Min(a, b) == IF a < b THEN a ELSE b
Max(a, b) == IF a > b THEN a ELSE b

(* xs[start:] with Python's index normalisation (0-based start) *)
SliceFrom(xs, start) ==
    LET n == Len(xs)
        s == IF start < 0 THEN Max(n + start, 0) ELSE Min(start, n)
    IN  SubSeq(xs, s + 1, n)

(* xs[:stop] with Python's index normalisation *)
SliceTo(xs, stop) ==
    LET n == Len(xs)
        e == IF stop < 0 THEN Max(n + stop, 0) ELSE Min(stop, n)
    IN  SubSeq(xs, 1, e)

IsSystem(m) == m.role = "system"
NotSystem(m) == m.role # "system"

(* str.strip() on a sequence of characters *)
RECURSIVE LStrip(_)
LStrip(s) == IF s # <<>> /\ Head(s) = " " THEN LStrip(Tail(s)) ELSE s
RECURSIVE RStrip(_)
RStrip(s) == IF s # <<>> /\ s[Len(s)] = " " THEN RStrip(SubSeq(s, 1, Len(s) - 1)) ELSE s
Strip(s) == RStrip(LStrip(s))

(* needle in hay, for sequences of characters *)
Contains(hay, needle) ==
    \E p \in 1..(Len(hay) - Len(needle) + 1) :
        SubSeq(hay, p, p + Len(needle) - 1) = needle

(* str(e): the status code followed by the message *)
StrOfError(e) == e.code \o <<" ">> \o e.message

(* "429" in str(e) *)
IsQuotaError(e) == Contains(StrOfError(e), QUOTA)

Turn(r, text, ts) == [role |-> r, content |-> text, timestamp |-> ts]

(* ------------------------------------------------------- trim_history *)
(* non_sys[:keep] : the oldest Turns are kept instead of the latest *)
trim_history_oldest(h, keep) ==
    LET non_sys == SelectSeq(h, NotSystem)
    IN  SliceTo(SelectSeq(h, IsSystem), 1) \o SliceTo(non_sys, keep)

(* history[:1] + history[-keep:] : the slices taken from the unfiltered list *)
trim_history_unfiltered(h, keep) ==
    SliceTo(h, 1) \o SliceFrom(h, 0 - keep)

(* non_sys[-keep:] alone: the system part is not put back *)
trim_history_no_system(h, keep) ==
    SliceFrom(SelectSeq(h, NotSystem), 0 - keep)

(* non_sys[-(keep + 1):] : one Turn too many is kept *)
trim_history_off_by_one(h, keep) ==
    LET non_sys == SelectSeq(h, NotSystem)
    IN  SliceTo(SelectSeq(h, IsSystem), 1) \o SliceFrom(non_sys, 0 - (keep + 1))

trim_history(h, keep) ==
    LET non_sys == SelectSeq(h, NotSystem)
    IN  SliceTo(SelectSeq(h, IsSystem), 1) \o SliceFrom(non_sys, 0 - keep)

(* ---------------------------------------------------------- the prompt *)
Upper(r) == CASE r = "system" -> "SYSTEM"
              [] r = "user" -> "USER"
              [] r = "assistant" -> "ASSISTANT"

Block(m) == <<"[", Upper(m.role), "]", "\n">> \o m.content

RECURSIVE Join(_)
Join(blocks) ==
    IF blocks = <<>> THEN <<>>
    ELSE IF Len(blocks) = 1 THEN Head(blocks)
    ELSE Head(blocks) \o <<"\n">> \o Join(Tail(blocks))

Serialize(h) == Join([j \in 1..Len(h) |-> Block(h[j])])

(* --------------------------------------------------- the session state *)
SystemTurn(ts) == Turn("system", SYSTEM_PROMPT, ts)

NoObservation ==
    /\ calls' = 0
    /\ trims' = 0
    /\ sleeps' = <<>>
    /\ prompts' = <<>>
    /\ outcomes' = <<>>
    /\ error' = <<>>
    /\ before' = history
    /\ user_turn' = <<>>
    /\ credential' = <<>>

Init ==
    /\ genai \in BOOLEAN
    /\ hasHistory = FALSE
    /\ history = <<>>
    /\ now = 0
    /\ pc = "idle"
    /\ i = 0
    /\ prompt = <<>>
    /\ calls = 0
    /\ trims = 0
    /\ sleeps = <<>>
    /\ prompts = <<>>
    /\ outcomes = <<>>
    /\ error = <<>>
    /\ op = "none"
    /\ before = <<>>
    /\ user_turn = <<>>
    /\ credential = <<>>
    /\ arg_history = <<>>
    /\ keep_turns = 0
    /\ result = <<>>
    /\ applied = 0

(* first run of the script in a session: no button is pressed *)
PageLoad ==
    /\ pc = "idle"
    /\ ~hasHistory
    /\ now < MaxTime
    /\ hasHistory' = TRUE
    /\ history' = <<SystemTurn(now)>>
    /\ now' = now + 1
    /\ NoObservation
    /\ op' = "load"
    /\ UNCHANGED <<genai, pc, i, prompt>>
    /\ UNCHANGED trimVars

(* the reset button appending the system Turn instead of assigning the list *)
ResetConversation_appended ==
    /\ pc = "idle"
    /\ hasHistory
    /\ now < MaxTime
    /\ history' = Append(history, SystemTurn(now))
    /\ now' = now + 1
    /\ NoObservation
    /\ op' = "reset"
    /\ UNCHANGED <<genai, hasHistory, pc, i, prompt>>
    /\ UNCHANGED trimVars

(* the conversation reset button *)
ResetConversation ==
    /\ pc = "idle"
    /\ hasHistory
    /\ now < MaxTime
    /\ history' = <<SystemTurn(now)>>
    /\ now' = now + 1
    /\ NoObservation
    /\ op' = "reset"
    /\ UNCHANGED <<genai, hasHistory, pc, i, prompt>>
    /\ UNCHANGED trimVars

(* the full reset button: clear the session state, rerun, and the rerun *)
(* seeds the history again                                              *)
FullReset ==
    /\ pc = "idle"
    /\ hasHistory
    /\ now < MaxTime
    /\ hasHistory' = TRUE
    /\ history' = <<SystemTurn(now)>>
    /\ now' = now + 1
    /\ NoObservation
    /\ op' = "full_reset"
    /\ UNCHANGED <<genai, pc, i, prompt>>
    /\ UNCHANGED trimVars

(* except Exception: pass -- the failure is swallowed, nothing is shown *)
ErrorShown_swallowed(text) == <<>>

(* st.error(f"... {e}") *)
ErrorShown(text) == <<"E">> \o text

(* range(retries + 1): one iteration too many *)
LoopContinues_one_more(j) == j + 1 < retries + 1

(* for i in range(retries): is there an iteration after iteration j *)
LoopContinues(j) == j + 1 < retries

(* if not api_key: the check is skipped *)
HasKey_unchecked(api_key) == TRUE

(* api_key is truthy *)
HasKey(api_key) == api_key # <<>>

(* time.sleep(2 * i) *)
Backoff_linear(j) == 2 * j

(* time.sleep(2 ** i) *)
Backoff(j) == 2 ^ j

(* the send button, up to the first call of the retry loop *)
Send(user_input, api_key) ==
    /\ pc = "idle"
    /\ hasHistory
    /\ now + 1 < MaxTime
    /\ calls' = 0
    /\ trims' = 0
    /\ sleeps' = <<>>
    /\ prompts' = <<>>
    /\ outcomes' = <<>>
    /\ before' = history
    /\ credential' = api_key
    /\ IF Strip(user_input) = <<>>
       THEN /\ error' = <<>>
            /\ op' = "noop"
            /\ user_turn' = <<>>
            /\ UNCHANGED <<history, now, pc, i, prompt>>
       ELSE LET h == Append(history, Turn("user", Strip(user_input), now))
            IN  /\ history' = h
                /\ now' = now + 1
                /\ op' = "send"
                /\ user_turn' = <<Turn("user", Strip(user_input), now)>>
                /\ IF ~HasKey(api_key)
                   THEN /\ error' = API_KEY_ERROR
                        /\ UNCHANGED <<pc, i, prompt>>
                   ELSE IF ~genai
                   THEN /\ error' = ErrorShown(NO_GENAI_ERROR)
                        /\ UNCHANGED <<pc, i, prompt>>
                   ELSE /\ error' = <<>>
                        /\ prompt' = Serialize(h)
                        /\ i' = 0
                        /\ pc' = "attempting"
    /\ UNCHANGED <<genai, hasHistory>>
    /\ UNCHANGED trimVars

(* st.session_state["history"] = [reply Turn]: assigned instead of appended *)
AppendReply_assigned(reply) ==
    /\ history' = <<Turn("assistant", reply, now)>>
    /\ now' = now + 1
    /\ pc' = "idle"
    /\ i' = 0
    /\ prompt' = <<>>

(* the reply is appended and the script reruns; the loop's locals are gone *)
AppendReply(reply) ==
    /\ history' = Append(history, Turn("assistant", reply, now))
    /\ now' = now + 1
    /\ pc' = "idle"
    /\ i' = 0
    /\ prompt' = <<>>

(* call_gemini returns text but the break is missing: the loop goes on *)
CallSucceeds_no_break(text) ==
    /\ pc = "attempting"
    /\ calls' = calls + 1
    /\ prompts' = Append(prompts, prompt)
    /\ outcomes' = Append(outcomes, [code |-> <<>>, message |-> text])
    /\ IF i + 1 < retries
       THEN /\ i' = i + 1
            /\ UNCHANGED <<history, now, pc, prompt>>
       ELSE /\ history' = Append(history, Turn("assistant", <<"F">>, now))
            /\ now' = now + 1
            /\ pc' = "idle"
            /\ i' = 0
            /\ prompt' = <<>>
    /\ UNCHANGED <<genai, hasHistory, trims, sleeps, error>>
    /\ UNCHANGED runVars
    /\ UNCHANGED trimVars

(* call_gemini returns text: break out of the loop *)
CallSucceeds(text) ==
    /\ pc = "attempting"
    /\ calls' = calls + 1
    /\ prompts' = Append(prompts, prompt)
    /\ outcomes' = Append(outcomes, [code |-> <<>>, message |-> text])
    /\ AppendReply(text)
    /\ UNCHANGED <<genai, hasHistory, trims, sleeps, error>>
    /\ UNCHANGED runVars
    /\ UNCHANGED trimVars

(* call_gemini raises e, and the handler pops the user Turn when it gives up *)
CallFails_rollback(e) ==
    /\ pc = "attempting"
    /\ calls' = calls + 1
    /\ prompts' = Append(prompts, prompt)
    /\ outcomes' = Append(outcomes, e)
    /\ IF IsQuotaError(e)
       THEN /\ history' = trim_history(history, KEEP_TURNS)
            /\ trims' = trims + 1
            /\ sleeps' = Append(sleeps, Backoff(i))
            /\ pc' = "sleeping"
            /\ UNCHANGED <<now, i, prompt, error>>
       ELSE /\ error' = ErrorShown(StrOfError(e))
            /\ history' = SubSeq(history, 1, Len(history) - 1)
            /\ pc' = "idle"
            /\ i' = 0
            /\ prompt' = <<>>
            /\ UNCHANGED <<now, trims, sleeps>>
    /\ UNCHANGED <<genai, hasHistory>>
    /\ UNCHANGED runVars
    /\ UNCHANGED trimVars

(* call_gemini raises e *)
CallFails(e) ==
    /\ pc = "attempting"
    /\ calls' = calls + 1
    /\ prompts' = Append(prompts, prompt)
    /\ outcomes' = Append(outcomes, e)
    /\ IF IsQuotaError(e)
       THEN /\ history' = trim_history(history, KEEP_TURNS)
            /\ trims' = trims + 1
            /\ sleeps' = Append(sleeps, Backoff(i))
            /\ pc' = "sleeping"
            /\ UNCHANGED <<now, i, prompt, error>>
       ELSE /\ error' = ErrorShown(StrOfError(e))
            /\ pc' = "idle"
            /\ i' = 0
            /\ prompt' = <<>>
            /\ UNCHANGED <<history, now, trims, sleeps>>
    /\ UNCHANGED <<genai, hasHistory>>
    /\ UNCHANGED runVars
    /\ UNCHANGED trimVars

(* time.sleep returns: continue with the next iteration, or the loop's *)
(* else branch when there is none                                      *)
SleepReturns ==
    /\ pc = "sleeping"
    /\ IF LoopContinues(i)
       THEN /\ i' = i + 1
            /\ pc' = "attempting"
            /\ UNCHANGED <<history, now, prompt>>
       ELSE AppendReply(FALLBACK_REPLY)
    /\ UNCHANGED <<genai, hasHistory, calls, trims, sleeps, prompts, outcomes, error>>
    /\ UNCHANGED runVars
    /\ UNCHANGED trimVars

Next ==
    \/ PageLoad
    \/ ResetConversation
    \/ FullReset
    \/ \E user_input \in UserInputs, api_key \in ApiKeys : Send(user_input, api_key)
    \/ \E text \in Replies : CallSucceeds(text)
    \/ \E e \in Errors : CallFails(e)
    \/ SleepReturns

Spec == Init /\ [][Next]_vars

(* the blocking call to the provider comes back, with text or an exception *)
ProviderReturns ==
    \/ \E text \in Replies : CallSucceeds(text)
    \/ \E e \in Errors : CallFails(e)

(* the script is one thread: a call that returns and a sleep that ends are *)
(* followed by the next statement                                          *)
SpecFair == Spec /\ WF_vars(ProviderReturns) /\ WF_vars(SleepReturns)

(* ------------------------------------------- trim_history on its own *)
ContentOf(r) == CASE r = "system" -> SYSTEM_PROMPT
                  [] r = "user" -> <<"a">>
                  [] r = "assistant" -> <<"r">>

(* every sequence of at most MaxLen Turns, the timestamp telling them apart *)
Conversations ==
    UNION {{[j \in 1..n |-> Turn(rs[j], ContentOf(rs[j]), j)] : rs \in [1..n -> Roles]}
           : n \in 0..MaxLen}

InitTrim ==
    /\ genai = TRUE
    /\ hasHistory = FALSE
    /\ history = <<>>
    /\ now = 0
    /\ pc = "trim_history"
    /\ i = 0
    /\ prompt = <<>>
    /\ calls = 0
    /\ trims = 0
    /\ sleeps = <<>>
    /\ prompts = <<>>
    /\ outcomes = <<>>
    /\ error = <<>>
    /\ op = "none"
    /\ before = <<>>
    /\ user_turn = <<>>
    /\ credential = <<>>
    /\ arg_history \in Conversations
    /\ keep_turns \in 0..MaxKeep
    /\ result = <<>>
    /\ applied = 0

(* result = trim_history(arg_history, keep_turns) *)
TrimOnce ==
    /\ pc = "trim_history"
    /\ applied = 0
    /\ result' = trim_history(arg_history, keep_turns)
    /\ applied' = 1
    /\ UNCHANGED <<arg_history, keep_turns>>
    /\ UNCHANGED appVars

(* result = trim_history(result, keep_turns) *)
TrimAgain ==
    /\ pc = "trim_history"
    /\ applied >= 1
    /\ applied < MaxApplied
    /\ result' = trim_history(result, keep_turns)
    /\ applied' = applied + 1
    /\ UNCHANGED <<arg_history, keep_turns>>
    /\ UNCHANGED appVars

NextTrim ==
    \/ TrimOnce
    \/ TrimAgain

SpecTrim == InitTrim /\ [][NextTrim]_vars

(* the session and trim_history on its own, side by side *)
InitBoth == Init \/ InitTrim

NextBoth ==
    \/ Next
    \/ NextTrim

SpecBoth == InitBoth /\ [][NextBoth]_vars

(* ================================================== checked properties *)
NonSystemCount(h) == Cardinality({j \in 1..Len(h) : h[j].role # "system"})
LastTurn(h) == h[Len(h)]
SendFinished == pc = "idle" /\ calls >= 1
EveryCallFailedWithCode429 ==
    /\ Len(outcomes) = retries
    /\ \A j \in 1..Len(outcomes) : outcomes[j].code = QUOTA

(* C1: whatever the provider answers, one send makes at most retries (3) *)
(* calls to the Completion Client.                                       *)
C1_AtMostMaxAttemptsCalls == calls <= retries

C1_Witness == pc = "idle" /\ calls = retries /\ LastTurn(history).content = FALLBACK_REPLY

(* C2, as stated: when every call fails with code 429 and the send has   *)
(* finished, the conversation has at most 6 non-system Turns and ends    *)
(* with the fallback assistant Turn.                                     *)
C2_Original ==
    (SendFinished /\ EveryCallFailedWithCode429) =>
        /\ NonSystemCount(history) <= KEEP_TURNS
        /\ LastTurn(history) = Turn("assistant", FALLBACK_REPLY, now - 1)

(* C2, amended: when every call fails with code 429 and the send has     *)
(* finished, the conversation ends with the fallback assistant Turn, at  *)
(* most 6 non-system Turns precede it, so at most 7 non-system Turns are *)
(* stored.                                                               *)
C2_FallbackAfterAtMostSixTurns ==
    (SendFinished /\ EveryCallFailedWithCode429) =>
        /\ NonSystemCount(history) <= KEEP_TURNS + 1
        /\ NonSystemCount(SubSeq(history, 1, Len(history) - 1)) <= KEEP_TURNS
        /\ LastTurn(history) = Turn("assistant", FALLBACK_REPLY, now - 1)

C2_Witness ==
    /\ SendFinished
    /\ EveryCallFailedWithCode429
    /\ NonSystemCount(history) = KEEP_TURNS + 1
    /\ history[2].timestamp > 1

(* C3: once a 429 failure has trimmed the stored conversation, the prompt *)
(* of the next attempt is the serialization of the conversation as it is  *)
(* now stored.                                                            *)
C3_PromptIsCurrentConversation ==
    (pc = "attempting" /\ trims >= 1) => prompt = Serialize(history)

(* C4: the trim-and-backoff step is taken only for a 429 failure on an    *)
(* attempt before the last one, so a send trims and sleeps at most        *)
(* retries - 1 times.                                                     *)
C4_NoTrimOnFinalAttempt ==
    /\ pc = "sleeping" => (i < retries - 1 /\ IsQuotaError(outcomes[Len(outcomes)]))
    /\ trims <= retries - 1
    /\ Len(sleeps) <= retries - 1

(* C5: when the first call of a send fails with a code other than 429,    *)
(* the send makes exactly that one call, shows the error, does not trim   *)
(* and appends no assistant Turn.                                         *)
C5_Non429FirstCallSurfaces ==
    (Len(outcomes) >= 1 /\ outcomes[1].code \notin {<<>>, QUOTA}) =>
        /\ calls = 1
        /\ pc = "idle"
        /\ trims = 0
        /\ sleeps = <<>>
        /\ error = ErrorShown(StrOfError(outcomes[1]))
        /\ LastTurn(history).role = "user"

FirstSystemTurn(c) ==
    IF \E j \in 1..Len(c) : c[j].role = "system"
    THEN <<c[CHOOSE j \in 1..Len(c) :
                /\ c[j].role = "system"
                /\ \A l \in 1..(j - 1) : c[l].role # "system"]>>
    ELSE <<>>

(* the last m elements of xs, in their order *)
LastN(xs, m) == [j \in 1..m |-> xs[Len(xs) - m + j]]

(* C7: trim(c, k) is the first system Turn of c (if any) followed by the  *)
(* last min(k, number of non-system Turns) non-system Turns of c, in      *)
(* their original order.                                                  *)
C7_TrimIsSystemThenLastK ==
    applied = 1 =>
        LET non_sys == SelectSeq(arg_history, NotSystem)
        IN  result = FirstSystemTurn(arg_history)
                       \o LastN(non_sys, Min(keep_turns, Len(non_sys)))

(* C8: trimming with keep_turns = 6 is idempotent: for every conversation *)
(* trimming the result of a trim again returns it unchanged, and so each  *)
(* 429 trim of a send after the first leaves the stored conversation as   *)
(* the first trim left it.                                                *)
C8_TrimIdempotent ==
    /\ []((keep_turns = KEEP_TURNS /\ applied >= 2) =>
              result = trim_history(arg_history, KEEP_TURNS))
    /\ [][(trims >= 1 /\ trims' = trims + 1) => history' = history]_vars

C8_Witness ==
    /\ keep_turns = KEEP_TURNS
    /\ applied = 2
    /\ Len(result) = KEEP_TURNS
    /\ Len(arg_history) > KEEP_TURNS

(* C9: when the first Turn of c is a system Turn, the first Turn of       *)
(* trim(c, k) is that same Turn, for every k >= 0.                        *)
C9_SystemTurnPreserved ==
    (applied >= 1 /\ arg_history # <<>> /\ arg_history[1].role = "system") =>
        (result # <<>> /\ result[1] = arg_history[1])

C9_Witness ==
    /\ applied = 1
    /\ Len(arg_history) = MaxLen
    /\ arg_history[1].role = "system"
    /\ keep_turns = 2
    /\ Len(result) = 3
    /\ result[1] = arg_history[1]

(* C10: the stored conversation never holds a system Turn anywhere but at *)
(* its first position, hence at most one.                                 *)
C10_SystemTurnOnlyFirst ==
    /\ \A j \in 1..Len(history) : history[j].role = "system" => j = 1
    /\ hasHistory => (history # <<>> /\ history[1].role = "system")

C10_Witness ==
    /\ pc = "idle"
    /\ trims >= 1
    /\ Len(history) = KEEP_TURNS + 2
    /\ history[1].role = "system"
    /\ history[1].timestamp > 0

IsSuccess(o) == o.code = <<>>

(* the conversation the latest send has built before any reply: the       *)
(* history it started from and its user Turn, trimmed if a trim happened  *)
SentConversation ==
    IF trims = 0 THEN before \o user_turn
    ELSE trim_history(before \o user_turn, KEEP_TURNS)

(* C11: a successful call is the last call of its send and its text is    *)
(* appended as exactly one assistant Turn at the end; from [system] a     *)
(* send whose first call succeeds leaves system, user, assistant.         *)
C11_SuccessAppendsOneAssistantTurn ==
    /\ \A j \in 1..Len(outcomes) :
          IsSuccess(outcomes[j]) =>
              /\ j = Len(outcomes)
              /\ calls = j
              /\ pc = "idle"
              /\ history = SentConversation
                             \o <<Turn("assistant", outcomes[j].message, now - 1)>>
    /\ (Len(before) = 1 /\ Len(outcomes) = 1 /\ IsSuccess(outcomes[1])) =>
          /\ Len(history) = 3
          /\ history[1].role = "system"
          /\ history[2].role = "user"
          /\ history[3].role = "assistant"

C11_Witness ==
    /\ op = "send"
    /\ pc = "idle"
    /\ before = <<Turn("system", SYSTEM_PROMPT, 0)>>
    /\ Len(outcomes) = 1
    /\ IsSuccess(outcomes[1])
    /\ Len(history) = 3
    /\ history[3].content \in Replies

NoReplyObtained == \A j \in 1..Len(outcomes) : ~IsSuccess(outcomes[j])

(* C12: a send that has ended without a reply (missing credential, a      *)
(* surfaced provider or client error, or quota failures on all attempts)  *)
(* has either appended the fallback assistant Turn or displayed an error. *)
C12_FailureIsVisible ==
    (op = "send" /\ pc = "idle" /\ NoReplyObtained) =>
        \/ error # <<>>
        \/ LastTurn(history) = Turn("assistant", FALLBACK_REPLY, now - 1)

C12_Witness ==
    /\ op = "send"
    /\ pc = "idle"
    /\ Len(outcomes) = 2
    /\ IsQuotaError(outcomes[1])
    /\ ~IsQuotaError(outcomes[2])
    /\ ~IsSuccess(outcomes[2])
    /\ error = ErrorShown(StrOfError(outcomes[2]))
    /\ LastTurn(history).role = "user"

FailedWithCode429(o) == ~IsSuccess(o) /\ o.code = QUOTA
FailedWithOtherCode(o) == ~IsSuccess(o) /\ o.code # QUOTA

(* C13: a provider failure whose code is not 429 is never retried: it is  *)
(* the last call of its send, it is not trimmed or slept on, its error is *)
(* shown and no assistant Turn is appended; only failures with code 429   *)
(* are trimmed and slept on.                                              *)
C13_Non429NeverRetried ==
    /\ \A j \in 1..Len(outcomes) :
          FailedWithOtherCode(outcomes[j]) =>
              /\ j = Len(outcomes)
              /\ pc = "idle"
              /\ error = ErrorShown(StrOfError(outcomes[j]))
              /\ LastTurn(history).role # "assistant"
    /\ trims = Cardinality({j \in 1..Len(outcomes) : FailedWithCode429(outcomes[j])})
    /\ Len(sleeps) = trims

IsPrefix(p, h) == Len(p) <= Len(h) /\ SubSeq(h, 1, Len(p)) = p

(* C14: the conversation changes only by an append at the end, by the     *)
(* trim of a 429 failure, or by a reset; and while a send has not         *)
(* trimmed, the Turns it started from are an unchanged prefix, followed   *)
(* by its one user Turn and at most one assistant Turn.                   *)
C14_OnlyAppendTrimOrReset ==
    /\ []((op = "send" /\ trims = 0) =>
              /\ IsPrefix(before \o user_turn, history)
              /\ Len(user_turn) = 1
              /\ Len(history) <= Len(before) + 2
              /\ Len(history) = Len(before) + 2 => LastTurn(history).role = "assistant")
    /\ [][history' # history =>
              \/ /\ Len(history') = Len(history) + 1
                 /\ IsPrefix(history, history')
                 /\ LastTurn(history').role \in {"user", "assistant"}
              \/ /\ trims' = trims + 1
                 /\ history' = trim_history(history, KEEP_TURNS)
              \/ /\ op' \in {"load", "reset", "full_reset"}
                 /\ history' = <<Turn("system", SYSTEM_PROMPT, now)>>]_vars

C14_Witness ==
    /\ op = "send"
    /\ pc = "idle"
    /\ trims = 0
    /\ Len(before) >= 3
    /\ Len(history) = Len(before) + 2
    /\ IsPrefix(before, history)

(* C15: after either reset the conversation is exactly one Turn, the      *)
(* system Turn with the fixed prompt and a fresh timestamp; nothing of    *)
(* the earlier conversation remains.                                      *)
C15_ResetLeavesOnlySystemTurn ==
    op \in {"reset", "full_reset"} =>
        /\ Len(history) = 1
        /\ history[1].role = "system"
        /\ history[1].content = SYSTEM_PROMPT
        /\ history[1].timestamp = now - 1
        /\ \A j \in 1..Len(before) : history[1].timestamp > before[j].timestamp

C15_Witness ==
    /\ op = "reset"
    /\ Len(before) >= 4
    /\ \E j \in 1..Len(before) : before[j].role = "assistant"
    /\ Len(history) = 1

(* C16: a send without a credential makes no call to the Completion       *)
(* Client, does not retry, trim or sleep, and shows an error.             *)
C16_NoCredentialNoCall ==
    (op = "send" /\ credential = <<>>) =>
        /\ pc = "idle"
        /\ calls = 0
        /\ outcomes = <<>>
        /\ trims = 0
        /\ sleeps = <<>>
        /\ error = API_KEY_ERROR
        /\ history = before \o user_turn

C16_Witness ==
    /\ op = "send"
    /\ credential = <<>>
    /\ genai
    /\ error = API_KEY_ERROR
    /\ calls = 0
    /\ Len(history) >= 3

SendInFlight == pc \in {"attempting", "sleeping"}
TerminalOutcome ==
    /\ pc = "idle"
    /\ op = "send"
    /\ \/ error # <<>>
       \/ LastTurn(history).role = "assistant"

(* C17: when provider calls and sleeps return, every send in flight       *)
(* reaches a terminal outcome (reply or fallback appended, or error       *)
(* shown), with at most retries calls and at most retries sleeps.         *)
C17_SendTerminates ==
    /\ SendInFlight ~> TerminalOutcome
    /\ [](calls <= retries /\ Len(sleeps) <= retries)

C17_Witness ==
    /\ op = "send"
    /\ TerminalOutcome
    /\ calls = retries
    /\ Len(sleeps) = retries
    /\ NoReplyObtained

(* C18: the delay slept after the quota failure of attempt number j - 1   *)
(* (the j-th call) is 2^(j-1) seconds, so the delays of a send are 1, 2,  *)
(* 4 and strictly increase; each sleep comes with the trim of its         *)
(* failure, on the already trimmed conversation, and before the next call.*)
C18_ExponentialBackoff ==
    /\ \A j \in 1..Len(sleeps) : sleeps[j] = 2 ^ (j - 1)
    /\ \A j \in 1..(Len(sleeps) - 1) : sleeps[j] < sleeps[j + 1]
    /\ Len(sleeps) = trims
    /\ pc = "sleeping" =>
          /\ Len(sleeps) = calls
          /\ i = calls - 1
          /\ NonSystemCount(history) <= KEEP_TURNS
    /\ pc = "attempting" => Len(sleeps) = calls

C18_Witness ==
    /\ pc = "sleeping"
    /\ sleeps = <<1, 2, 4>>
    /\ Len(before) > KEEP_TURNS

(* C19: the user Turn of a send stays in the conversation through the     *)
(* trims of that send: it is the last Turn while the send is in flight,   *)
(* and when the send ends with a reply or the fallback it is the          *)
(* second-to-last Turn, the assistant Turn being the last.                *)
C19_UserTurnSurvivesTrims ==
    op = "send" =>
        /\ \E j \in 1..Len(history) : history[j] = user_turn[1]
        /\ SendInFlight => LastTurn(history) = user_turn[1]
        /\ (pc = "idle" /\ LastTurn(history).role = "assistant") =>
              /\ Len(history) >= 2
              /\ history[Len(history) - 1] = user_turn[1]
              /\ LastTurn(history).timestamp > user_turn[1].timestamp

C19_Witness ==
    /\ op = "send"
    /\ pc = "idle"
    /\ trims = retries
    /\ Len(before) > KEEP_TURNS
    /\ LastTurn(history).content = FALLBACK_REPLY
    /\ history[Len(history) - 1] = user_turn[1]

(* C20: a send that ends with an error shown (missing credential, or a    *)
(* surfaced provider or client failure) keeps its user Turn as the last   *)
(* Turn, with no assistant Turn, and keeps the trims of its earlier 429   *)
(* failures; the user Turn of the next send then directly follows it.     *)
C20_ErrorKeepsUserTurn ==
    /\ (op = "send" /\ pc = "idle" /\ error # <<>>) =>
          /\ history = SentConversation
          /\ LastTurn(history) = user_turn[1]
    /\ (op = "send" /\ before # <<>> /\ LastTurn(before).role = "user") =>
          \E j \in 1..(Len(history) - 1) :
              /\ history[j] = LastTurn(before)
              /\ history[j + 1] = user_turn[1]

C20_Witness ==
    /\ op = "send"
    /\ pc = "idle"
    /\ error # <<>>
    /\ error # API_KEY_ERROR
    /\ trims >= 1
    /\ Len(history) < Len(before) + 1
    /\ LastTurn(before).role = "user"
    /\ history[Len(history) - 1].role = "user"
    /\ LastTurn(history) = user_turn[1]
====
